---- MODULE Spec2Model ----
(***************************************************************************)
(* A model of the circuit solvers of qiskit-cold-atom:                     *)
(*   src/qiskit_cold_atom/fermions/fermion_circuit_solver.py               *)
(*   src/qiskit_cold_atom/spins/spin_circuit_solver.py                     *)
(* One solver object (fermionic or spin) is constructed and then driven    *)
(* through its public operations; the pure helpers (_check_conservations,  *)
(* _embed_operator) are also checked on their own over bounded inputs.     *)
(***************************************************************************)
EXTENDS Integers, Sequences, FiniteSets, TLC

\* ---------------------------------------------------------------- bounds
\* Largest number of wires of a circuit.
MaxWires == 4
\* Largest number of terms over all operators of a circuit handed to
\* _check_conservations on its own.
MaxTerms == 2
\* Largest number of fermionic species of a solver.
MaxSpecies == 2

\* ------------------------------------------------------------ the state
VARIABLES
    kind,           \* "none" before construction, then "fermion" or "spin"
    shots,          \* self.shots: None or a number of shots
    num_species,    \* self.num_species (fermionic solver)
    spin,           \* self.spin as a fraction <<numerator, denominator>>
    max_dimension,  \* self.max_dimension
    basis,          \* self._basis: None or a list of occupation vectors
    dim,            \* self._dim: None or an integer
    call            \* the operation in progress or just finished

vars == <<kind, shots, num_species, spin, max_dimension, basis, dim, call>>

\* Python's None and a present value.
None == <<>>
Some(x) == <<x>>

\* No operation in progress.
Idle == [op |-> "", arg |-> <<>>, phase |-> "idle", err |-> "", val |-> <<>>]
Called(op, arg) == [op |-> op, arg |-> arg, phase |-> "called", err |-> "", val |-> <<>>]
\* An operation that returned val.
Returned(op, arg, val) == [op |-> op, arg |-> arg, phase |-> "returned", err |-> "", val |-> val]
\* An operation that raised err.
Raised(op, arg, err) == [op |-> op, arg |-> arg, phase |-> "returned", err |-> err, val |-> <<>>]

\* ------------------------------------------------- _check_conservations
\* str.count: the number of occurrences of symbol c in the string s.
Count(s, c) == Cardinality({k \in DOMAIN s : s[k] = c})

\* A wrong comparison of the two counts: more creators than annihilators.
UnbalancedGreater(s) == Count(s, "+") > Count(s, "-")
\* num_creators != num_annihilators (lines 201-204 and 219-222).
Unbalanced(s) == Count(s, "+") # Count(s, "-")

\* A wrong slice: the block of species i taken to start at wire i.
SpeciesBlockUnscaled(opstring, sites, i) == SubSeq(opstring, i + 1, i + sites)
\* opstring[i * sites : (i + 1) * sites] (line 218).
SpeciesBlock(opstring, sites, i) == SubSeq(opstring, i * sites + 1, (i + 1) * sites)

\* The loop over the species (lines 217-224): the first block of sites wires
\* with unequal counts sets spin_conservation to False and breaks.
RECURSIVE SpeciesLoop(_, _, _, _, _)
SpeciesLoop(opstring, sites, ns, i, sc) ==
    IF i >= ns THEN sc
    ELSE IF Unbalanced(SpeciesBlock(opstring, sites, i))
    THEN FALSE
    ELSE SpeciesLoop(opstring, sites, ns, i + 1, sc)

\* The two nested loops over the operators and their terms (lines 188-224),
\* from term j of operator i on, with the current value sc of
\* spin_conservation.
RECURSIVE ConservationLoop(_, _, _, _, _, _)
ConservationLoop(ops, n, ns, i, j, sc) ==
    IF i > Len(ops)
    THEN [err |-> "", particle |-> TRUE, spin |-> sc]
    ELSE IF ops[i].type # "FermionicOp"
    THEN [err |-> "NotFermionicOp", particle |-> TRUE, spin |-> sc]
    ELSE IF j > Len(ops[i].terms)
    THEN ConservationLoop(ops, n, ns, i + 1, 1, sc)
    ELSE LET opstring == ops[i].terms[j]
         IN  IF Len(opstring) # n
             THEN [err |-> "LengthMismatch", particle |-> TRUE, spin |-> sc]
             ELSE IF Unbalanced(opstring)
             THEN [err |-> "", particle |-> FALSE, spin |-> FALSE]
             ELSE IF ns > 1
             THEN IF n % ns # 0
                  THEN [err |-> "NotMultipleOfSpecies", particle |-> TRUE, spin |-> sc]
                  ELSE ConservationLoop(ops, n, ns, i, j + 1,
                                        SpeciesLoop(opstring, n \div ns, ns, 0, sc))
             ELSE ConservationLoop(ops, n, ns, i, j + 1, sc)

\* FermionCircuitSolver._check_conservations(circuit): an error, or the pair
\* (particle_conservation, spin_conservation).
CheckConservations(circuit, ns) ==
    ConservationLoop(circuit.ops, circuit.num_qubits, ns, 1, 1, TRUE)

\* ----------------------------------------- inputs of _check_conservations
\* The symbols of a term-string.
Symbols == {"I", "+", "-"}
\* Term-strings offered for a circuit of n wires: the full length and one
\* symbol short of it.
TermStrings(n) == UNION {[1..m -> Symbols] : m \in {k \in {n - 1, n} : k >= 1}}
\* The operators of a circuit, built from a list t of term-strings: cut[i]
\* says that a new operator starts after term i, and a foreign operator (one
\* that is no FermionicOp) stands before operator number foreign (0: none).
RECURSIVE GroupTerms(_, _, _)
GroupTerms(t, cut, i) ==
    IF i > Len(t) THEN <<>>
    ELSE LET rest == GroupTerms(t, cut, i + 1)
         IN  IF i < Len(t) /\ ~cut[i]
             THEN <<[type |-> "FermionicOp", terms |-> <<t[i]>> \o rest[1].terms]>>
                  \o Tail(rest)
             ELSE <<[type |-> "FermionicOp", terms |-> <<t[i]>>]>> \o rest
ForeignOp == [type |-> "SpinOp", terms |-> <<>>]
InsertForeign(ops, foreign) ==
    IF foreign = 0 THEN ops
    ELSE SubSeq(ops, 1, foreign - 1) \o <<ForeignOp>> \o SubSeq(ops, foreign, Len(ops))

ZeroOccupations(n) == [w \in 1..n |-> 0]
ConsCircuit(n, t, cut, foreign) ==
    [num_qubits |-> n, init |-> ZeroOccupations(n),
     ops |-> InsertForeign(GroupTerms(t, cut, 1), foreign)]

\* --------------------------------------- _check_conservations on its own
InitCons ==
    /\ kind = "fermion"
    /\ shots = None
    /\ num_species \in 1..MaxSpecies
    /\ spin = <<0, 1>>
    /\ max_dimension = 1
    /\ basis = None
    /\ dim = None
    /\ \E n \in 1..MaxWires, k \in 0..MaxTerms :
         \E t \in [1..k -> TermStrings(n)], cut \in [1..(k - 1) -> BOOLEAN] :
           \E foreign \in 0..(Len(GroupTerms(t, cut, 1)) + 1) :
             call = Called("_check_conservations", ConsCircuit(n, t, cut, foreign))

DoCheckConservations ==
    /\ call.op = "_check_conservations"
    /\ call.phase = "called"
    /\ LET r == CheckConservations(call.arg, num_species)
       IN  call' = IF r.err # ""
                   THEN Raised(call.op, call.arg, r.err)
                   ELSE Returned(call.op, call.arg, <<r.particle, r.spin>>)
    /\ UNCHANGED <<kind, shots, num_species, spin, max_dimension, basis, dim>>

NextCons == DoCheckConservations

SpecCons == InitCons /\ [][NextCons]_vars

\* ------------------------------------------------------ _embed_operator
\* qargs[index], with Python's indices from 0.
At(qargs, index) == qargs[index + 1]

\* (action, qargs[index]) for one (action, index) of a term (line 158).
FermionEmbedFactor(factor, qargs) == <<factor[1], At(qargs, factor[2])>>

\* FermionCircuitSolver._embed_operator(operator, num_wires, qargs).
FermionEmbed(operator, num_wires, qargs) ==
    IF operator.type # "FermionicOp"
    THEN [err |-> "TypeMismatch", val |-> <<>>]
    ELSE IF operator.register_length # Len(qargs)
    THEN [err |-> "ArityMismatch", val |-> <<>>]
    ELSE [err |-> "",
          val |-> [type |-> "FermionicOp",
                   register_length |-> num_wires,
                   terms |-> [t \in DOMAIN operator.terms |->
                       [factors |-> [f \in DOMAIN operator.terms[t].factors |->
                                        FermionEmbedFactor(operator.terms[t].factors[f], qargs)],
                        coeff |-> operator.terms[t].coeff]]]]

\* The decimal digits, and str() of a natural number as a list of characters.
Digits == <<"0", "1", "2", "3", "4", "5", "6", "7", "8", "9">>
RECURSIVE Str(_)
Str(n) == IF n < 10 THEN <<Digits[n + 1]>> ELSE Str(n \div 10) \o <<Digits[(n % 10) + 1]>>
IsDigit(c) == \E d \in 1..10 : Digits[d] = c
\* int() of one character.
IntOfChar(c) == (CHOOSE d \in 1..10 : Digits[d] = c) - 1

\* str.split(): the words of s between blanks, from character i on, cur being
\* the word read so far.
RECURSIVE Split(_, _, _)
Split(s, i, cur) ==
    IF i > Len(s) THEN (IF cur = <<>> THEN <<>> ELSE <<cur>>)
    ELSE IF s[i] = " "
    THEN (IF cur = <<>> THEN <<>> ELSE <<cur>>) \o Split(s, i + 1, <<>>)
    ELSE Split(s, i + 1, Append(cur, s[i]))
\* " ".join(words).
RECURSIVE Join(_)
Join(words) ==
    IF words = <<>> THEN <<>>
    ELSE IF Len(words) = 1 THEN words[1]
    ELSE words[1] \o <<" ">> \o Join(Tail(words))

\* term[:2] + str(qargs[int(term[2])]) + term[3:] (line 103); <<>> stands for
\* the ValueError of int() or the IndexError of term[2] and qargs[...].
SpinEmbedTerm(term, qargs) ==
    IF Len(term) < 3 \/ ~IsDigit(term[3]) \/ IntOfChar(term[3]) >= Len(qargs)
    THEN <<>>
    ELSE SubSeq(term, 1, 2) \o Str(At(qargs, IntOfChar(term[3]))) \o SubSeq(term, 4, Len(term))

\* embedded_op_dict[key] = value on a dictionary kept as a list of
\* <<key, value>> in insertion order.
DictSet(d, key, value) ==
    IF \E i \in DOMAIN d : d[i][1] = key
    THEN [i \in DOMAIN d |-> IF d[i][1] = key THEN <<key, value>> ELSE d[i]]
    ELSE Append(d, <<key, value>>)

\* The loop over operator._data.items() (lines 100-104) from entry i on.
RECURSIVE SpinEmbedLoop(_, _, _, _)
SpinEmbedLoop(data, qargs, i, acc) ==
    IF i > Len(data) THEN [err |-> "", val |-> acc]
    ELSE LET old_labels == Split(data[i][1], 1, <<>>)
             new_labels == [t \in DOMAIN old_labels |-> SpinEmbedTerm(old_labels[t], qargs)]
         IN  IF \E t \in DOMAIN new_labels : new_labels[t] = <<>>
             THEN [err |-> "ValueError", val |-> <<>>]
             ELSE SpinEmbedLoop(data, qargs, i + 1, DictSet(acc, Join(new_labels), data[i][2]))

\* SpinCircuitSolver._embed_operator(operator, num_wires, qargs).
SpinEmbed(operator, num_wires, qargs) ==
    IF operator.type # "SpinOp"
    THEN [err |-> "TypeMismatch", val |-> <<>>]
    ELSE IF operator.num_spins # Len(qargs)
    THEN [err |-> "ArityMismatch", val |-> <<>>]
    ELSE LET r == SpinEmbedLoop(operator.data, qargs, 1, <<>>)
         IN  IF r.err # "" THEN r
             ELSE [err |-> "",
                   val |-> [type |-> "SpinOp", spin |-> spin,
                            num_spins |-> num_wires, data |-> r.val]]

\* --------------------------------------------- inputs of _embed_operator
\* Largest number of wires a spin operator acts on.
MaxArity == 11
\* Largest number of wires a fermionic operator acts on.
MaxFermionArity == 2
Coefficients == {1, 2}

\* Wire lists: k distinct wires of a register of n wires.
RECURSIVE WireLists(_, _)
WireLists(k, n) ==
    IF k = 0 THEN {<<>>}
    ELSE UNION {{Append(q, w) : w \in {x \in 0..(n - 1) : \A i \in DOMAIN q : q[i] # x}} :
                    q \in WireLists(k - 1, n)}
\* For wide operators: the first k wires, the last k wires, and both reversed.
Shifted(k, s) == [i \in 1..k |-> s + i - 1]
Reversed(q) == [i \in DOMAIN q |-> q[Len(q) + 1 - i]]
WideWireLists(k, n) ==
    {Shifted(k, 0), Shifted(k, n - k), Reversed(Shifted(k, 0)), Reversed(Shifted(k, n - k))}

\* Fermionic operators on k wires: one or two terms of one or two factors.
FermionFactors(k) == {"+", "-"} \X (0..(k - 1))
FermionTerms(k) ==
    {[factors |-> f, coeff |-> c] :
        f \in UNION {[1..m -> FermionFactors(k)] : m \in 1..2}, c \in Coefficients}
FermionOps(k) ==
    {[type |-> "FermionicOp", register_length |-> k, terms |-> t] :
        t \in UNION {[1..m -> FermionTerms(k)] : m \in 1..2}}

\* Spin operators on k spins, labels as SpinOp writes them: "X_3", "Z_10^2",
\* "X_0 Z_1".  One or two labels; a label has one factor, or two on
\* neighbouring spins.
SpinFactor(letter, index, power) ==
    <<letter, "_">> \o Str(index) \o (IF power > 1 THEN <<"^">> \o Str(power) ELSE <<>>)
SpinFactors(k) ==
    {SpinFactor(l, i, p) : l \in {"X", "Z"}, i \in 0..(k - 1), p \in 1..2}
SpinFactorsAt(i) == {SpinFactor(l, i, p) : l \in {"X", "Z"}, p \in 1..2}
SpinLabels(k) ==
    SpinFactors(k) \cup
    UNION {{Join(<<f, g>>) : f \in SpinFactorsAt(i), g \in SpinFactorsAt(i + 1)} :
              i \in 0..(k - 2)}
SpinOps(k) ==
    {[type |-> "SpinOp", num_spins |-> k, data |-> <<<<l, c>>>>] :
        l \in SpinLabels(k), c \in Coefficients}
    \cup
    UNION {{[type |-> "SpinOp", num_spins |-> k, data |-> <<<<l, 1>>, <<m, 2>>>>] :
                m \in SpinFactors(k) \ {l}} : l \in SpinLabels(k)}

EmbedArg(operator, num_wires, qargs) ==
    [operator |-> operator, num_wires |-> num_wires, qargs |-> qargs]

\* ------------------------------------------- _embed_operator on its own
InitEmbed ==
    /\ shots = None
    /\ num_species = 1
    /\ max_dimension = 1
    /\ basis = None
    /\ dim = None
    /\ \/ /\ kind = "fermion"
          /\ spin = <<0, 1>>
          /\ \E k \in 1..MaxFermionArity, n \in 1..MaxWires :
               \E o \in FermionOps(k) \cup SpinOps(1), q \in WireLists(k, n) \cup WireLists(k - 1, n) :
                 call = Called("_embed_operator", EmbedArg(o, n, q))
       \/ /\ kind = "spin"
          /\ spin = <<1, 2>>
          /\ \E k \in 1..MaxArity, n \in 1..(MaxArity + 1) :
               /\ n \in {k, k + 1}
               /\ \E o \in SpinOps(k) \cup FermionOps(1),
                     q \in WideWireLists(k, n) \cup {Shifted(k - 1, 0)} :
                    call = Called("_embed_operator", EmbedArg(o, n, q))

DoEmbedOperator ==
    /\ call.op = "_embed_operator"
    /\ call.phase = "called"
    /\ LET r == IF kind = "fermion"
                THEN FermionEmbed(call.arg.operator, call.arg.num_wires, call.arg.qargs)
                ELSE SpinEmbed(call.arg.operator, call.arg.num_wires, call.arg.qargs)
       IN  call' = IF r.err # ""
                   THEN Raised(call.op, call.arg, r.err)
                   ELSE Returned(call.op, call.arg, r.val)
    /\ UNCHANGED <<kind, shots, num_species, spin, max_dimension, basis, dim>>

NextEmbed == DoEmbedOperator

SpecEmbed == InitEmbed /\ [][NextEmbed]_vars

\* ------------------------------------------------- the fermionic solver
\* Largest number of shots a solver is constructed with.
MaxShots == 1
\* The values of max_dimension a solver is configured with.
MaxDimensions == {2, 4}
\* The max_dimension of a spin solver, which never reads it.
DefaultMaxDimension == CHOOSE m \in MaxDimensions : \A x \in MaxDimensions : x <= m
ShotsValues == {None} \cup {Some(n) : n \in 1..MaxShots}

RECURSIVE Pow(_, _)
Pow(b, n) == IF n = 0 THEN 1 ELSE b * Pow(b, n - 1)

\* The occupation vectors of n wires, in the order a basis lists them.
RECURSIVE Occupations(_)
Occupations(n) ==
    IF n = 0 THEN <<<<>>>>
    ELSE LET shorter == Occupations(n - 1)
         IN  [x \in 1..(2 * Len(shorter)) |->
                IF x <= Len(shorter) THEN <<0>> \o shorter[x]
                ELSE <<1>> \o shorter[x - Len(shorter)]]
Particles(occ, wires) == Cardinality({w \in wires : occ[w] = 1})
SpeciesWires(n, ns, s) == (s * (n \div ns) + 1)..((s + 1) * (n \div ns))

\* FermionicState.initial_state(circuit, num_species): the occupations the
\* circuit loads, per species.
InitialState(circuit, ns) ==
    IF ns > 1 /\ circuit.num_qubits % ns # 0
    THEN [err |-> "NotMultipleOfSpecies", occupations_flat |-> <<>>, num_species |-> ns]
    ELSE [err |-> "", occupations_flat |-> circuit.init, num_species |-> ns]

\* FermionicBasis.from_state(state, spin_conservation): the occupation vectors
\* with the particle number of the state, per species under
\* spin_conservation and in total otherwise.
FromState(state, spin_conservation) ==
    LET occ == state.occupations_flat
        n == Len(occ)
        Keep(v) ==
            IF spin_conservation
            THEN \A sp \in 0..(state.num_species - 1) :
                    Particles(v, SpeciesWires(n, state.num_species, sp))
                      = Particles(occ, SpeciesWires(n, state.num_species, sp))
            ELSE Particles(v, 1..n) = Particles(occ, 1..n)
    IN  SelectSeq(Occupations(n), Keep)

\* A wrong threshold: one basis state too many is let through.
BasisFitsOffByOne(b) == Len(b) <= max_dimension + 1
\* not (basis.dimension > self.max_dimension) (line 75).
BasisFits(b) == Len(b) <= max_dimension

\* The setter of FermionCircuitSolver.basis (lines 64-81): the error raised
\* and the value of self._basis afterwards.
BasisSetter(b) ==
    IF ~BasisFits(b)
    THEN [err |-> "DimensionExceeded", basis |-> basis]
    ELSE [err |-> "", basis |-> Some(b)]

\* A wrong order: self._dim taken from the new basis before it is assigned.
FermionPreprocessDimFirst(circuit) ==
    LET state == InitialState(circuit, num_species)
        cons == CheckConservations(circuit, num_species)
    IN  IF state.err # "" THEN [err |-> state.err, basis |-> basis, dim |-> dim]
        ELSE IF cons.err # "" THEN [err |-> cons.err, basis |-> basis, dim |-> dim]
        ELSE LET new == FromState(state, cons.spin)
                 set == BasisSetter(new)
             IN  [err |-> set.err, basis |-> set.basis, dim |-> Some(Len(new))]
\* FermionCircuitSolver.preprocess_circuit (lines 91-94): the error raised and
\* the values of self._basis and self._dim afterwards.
FermionPreprocessEffect(circuit) ==
    LET state == InitialState(circuit, num_species)
        cons == CheckConservations(circuit, num_species)
    IN  IF state.err # "" THEN [err |-> state.err, basis |-> basis, dim |-> dim]
        ELSE IF cons.err # "" THEN [err |-> cons.err, basis |-> basis, dim |-> dim]
        ELSE LET set == BasisSetter(FromState(state, cons.spin))
             IN  IF set.err # ""
                 THEN [err |-> set.err, basis |-> basis, dim |-> dim]
                 ELSE [err |-> "", basis |-> set.basis, dim |-> Some(Len(set.basis[1]))]

\* list.index: the position, from 0, of x in the list; -1 when absent.
IndexOf(list, x) ==
    IF \E i \in DOMAIN list : list[i] = x
    THEN (CHOOSE i \in DOMAIN list : list[i] = x /\ \A j \in 1..(i - 1) : list[j] # x) - 1
    ELSE -1

\* A wrong shape: one row too many.
ColumnVectorLonger(row, rows) ==
    IF rows < 1 \/ row >= rows
    THEN [err |-> "ValueError", val |-> <<>>]
    ELSE [err |-> "", val |-> [shape |-> <<rows + 1, 1>>, entries |-> {<<row, 0, 1>>}]]
\* csc_matrix(([1], ([row], [0])), shape=(rows, 1)): a sparse column vector,
\* or the ValueError of an entry outside the shape.
ColumnVector(row, rows) ==
    IF rows < 1 \/ row >= rows
    THEN [err |-> "ValueError", val |-> <<>>]
    ELSE [err |-> "", val |-> [shape |-> <<rows, 1>>, entries |-> {<<row, 0, 1>>}]]

\* FermionCircuitSolver.get_initial_state (lines 107-117).
FermionInitialState(circuit) ==
    LET state == InitialState(circuit, num_species)
    IN  IF state.err # "" THEN [err |-> state.err, val |-> <<>>]
        ELSE IF basis = None THEN [err |-> "AttributeError", val |-> <<>>]
        ELSE IF IndexOf(basis[1], state.occupations_flat) < 0
        THEN [err |-> "StateMissing", val |-> <<>>]
        ELSE ColumnVector(IndexOf(basis[1], state.occupations_flat), Len(basis[1]))

\* The test of the shots made before the test of the length.
DrawShotsChecksShotsFirst(meas_dim) ==
    IF shots = None THEN "ShotsUnset"
    ELSE IF Some(meas_dim) # dim THEN "DimensionMismatch"
    ELSE ""
\* The two tests that open draw_shots of both solvers (fermions: lines
\* 259-270, spins: lines 152-163): the error raised, if any.
DrawShotsChecks(meas_dim) ==
    IF Some(meas_dim) # dim THEN "DimensionMismatch"
    ELSE IF shots = None THEN "ShotsUnset"
    ELSE ""

\* "".join(map(str, k)) of an occupation vector k (line 274).
OccupationString(k) == [w \in DOMAIN k |-> Digits[k[w] + 1]]

\* FermionCircuitSolver.draw_shots, the sampled indices being samples:
\* np.random.choice refuses an empty list and a p of another length.
FermionDraw(distribution, samples) ==
    IF DrawShotsChecks(distribution.len) # ""
    THEN [err |-> DrawShotsChecks(distribution.len), val |-> <<>>]
    ELSE IF basis = None THEN [err |-> "AttributeError", val |-> <<>>]
    ELSE IF Len(basis[1]) # distribution.len \/ distribution.len = 0
    THEN [err |-> "ValueError", val |-> <<>>]
    ELSE [err |-> "",
          val |-> [m \in DOMAIN samples |-> OccupationString(basis[1][samples[m] + 1])]]

\* ------------------------------------------------------ the spin solver
\* Largest numerator and denominator of the spin given to the constructor.
MaxSpinNumerator == 2
MaxSpinDenominator == 3

RECURSIVE Gcd(_, _)
Gcd(a, b) == IF b = 0 THEN a ELSE Gcd(b, a % b)
Abs(x) == IF x < 0 THEN -x ELSE x
\* Fraction(n / d), in lowest terms.
Fraction(n, d) == <<n \div Gcd(Abs(n), d), d \div Gcd(Abs(n), d)>>

\* not (self.spin.denominator not in (1, 2)) (line 50).
SpinAccepted(s) == s[2] \in {1, 2}

\* int(2 * self.spin + 1) (line 167); 2 * self.spin is an integer.
Base == (2 * spin[1] + spin[2]) \div spin[2]
\* int((2 * self.spin + 1) ** circuit.num_qubits) (lines 69 and 129).
SpinDimension(circuit) == Pow(Base, circuit.num_qubits)

\* SpinCircuitSolver.get_initial_state (lines 69-72).
SpinInitialState(circuit) == ColumnVector(0, SpinDimension(circuit))

\* The powers base ** n for which CPython's math.log(base ** n, base) is not
\* an integer (3.0000000000000004 for 125 and 5), up to 2,000,000.
InexactLogs ==
    {<<243, 3>>, <<59049, 3>>, <<1594323, 3>>, <<125, 5>>, <<15625, 5>>, <<216, 6>>,
     <<46656, 6>>, <<16807, 7>>, <<59049, 9>>, <<1000, 10>>, <<1000000, 10>>}
\* The exponent n with base ** n = x, or -1 when x is no power of base.
RECURSIVE ExactLog(_, _, _)
ExactLog(x, base, n) ==
    IF Pow(base, n) = x THEN n
    ELSE IF Pow(base, n) > x THEN -1
    ELSE ExactLog(x, base, n + 1)
\* num_wires = math.log(meas_dim, base) and its test (lines 168-176), for
\* meas_dim >= 1: math.log raises for a base <= 0 (ValueError) and for base 1
\* (ZeroDivisionError).
NumWires(meas_dim, base) ==
    IF base <= 0 THEN [err |-> "ValueError", n |-> 0]
    ELSE IF base = 1 THEN [err |-> "ZeroDivisionError", n |-> 0]
    ELSE IF ExactLog(meas_dim, base, 0) < 0 \/ <<meas_dim, base>> \in InexactLogs
    THEN [err |-> "IncompatibleLength", n |-> 0]
    ELSE [err |-> "", n |-> ExactLog(meas_dim, base, 0)]

\* A wrong order: the digits written from the most significant one.
RECURSIVE DecodeLoopReversed(_, _, _, _, _)
DecodeLoopReversed(meas_idx, base, num_wires, i, digits) ==
    IF i >= num_wires THEN digits
    ELSE DecodeLoopReversed(meas_idx \div base, base, num_wires, i + 1,
                            [digits EXCEPT ![num_wires - i] = meas_idx % base])
\* The loop of lines 180-183, from position i on: digits[i] = meas_idx % base
\* and meas_idx //= base.
RECURSIVE DecodeLoop(_, _, _, _, _)
DecodeLoop(meas_idx, base, num_wires, i, digits) ==
    IF i >= num_wires THEN digits
    ELSE DecodeLoop(meas_idx \div base, base, num_wires, i + 1,
                    [digits EXCEPT ![i + 1] = meas_idx % base])

\* " ".join(map(str, digits)) (line 185).
DigitString(digits) == Join([i \in DOMAIN digits |-> Str(digits[i])])

\* SpinCircuitSolver.draw_shots, the sampled indices being samples.
SpinDraw(distribution, samples) ==
    IF DrawShotsChecks(distribution.len) # ""
    THEN [err |-> DrawShotsChecks(distribution.len), val |-> <<>>]
    ELSE IF distribution.len = 0 THEN [err |-> "ValueError", val |-> <<>>]
    ELSE LET wires == NumWires(distribution.len, Base)
         IN  IF wires.err # "" THEN [err |-> wires.err, val |-> <<>>]
             ELSE [err |-> "",
                   val |-> [m \in DOMAIN samples |->
                       DigitString(DecodeLoop(samples[m], Base, wires.n, 0,
                                              [i \in 1..wires.n |-> 0]))]]

\* ---------------------------------------------- inputs of the operations
\* Generators of gates: a hop between two wires, the creation of a particle
\* on a wire, and the number of particles on a wire.
Hop ==
    [type |-> "FermionicOp", register_length |-> 2,
     terms |-> <<[factors |-> <<<<"+", 0>>, <<"-", 1>>>>, coeff |-> 1],
                 [factors |-> <<<<"-", 0>>, <<"+", 1>>>>, coeff |-> 1]>>]
Create ==
    [type |-> "FermionicOp", register_length |-> 1,
     terms |-> <<[factors |-> <<<<"+", 0>>>>, coeff |-> 1]>>]
Number ==
    [type |-> "FermionicOp", register_length |-> 1,
     terms |-> <<[factors |-> <<<<"+", 0>>, <<"-", 0>>>>, coeff |-> 1]>>]
\* The gates a circuit of n wires is given: a hop between two neighbouring
\* wires, a creation or a number operator on the last wire.
Gates(n) ==
    {[generator |-> Hop, qargs |-> <<w, w + 1>>] : w \in 0..(n - 2)}
    \cup {[generator |-> g, qargs |-> <<n - 1>>] : g \in {Create, Number}}

\* The symbol FermionicOp.to_list() writes for a wire on which a term acts by
\* the actions acts, in this order.
DenseSymbol(acts) ==
    IF acts = <<>> THEN "I"
    ELSE IF acts = <<"+">> THEN "+"
    ELSE IF acts = <<"-">> THEN "-"
    ELSE IF acts = <<"+", "-">> THEN "N"
    ELSE IF acts = <<"-", "+">> THEN "E"
    ELSE "0"
DenseLabel(factors, n) ==
    [w \in 1..n |->
        LET OnWire(f) == f[2] = w - 1
            mine == SelectSeq(factors, OnWire)
        IN  DenseSymbol([i \in DOMAIN mine |-> mine[i][1]])]
\* self.to_operators(circuit): every gate's generator embedded in the register
\* of the circuit, with its terms as to_list() gives them.
ToOperators(n, gates) ==
    [g \in DOMAIN gates |->
        LET op == FermionEmbed(gates[g].generator, n, gates[g].qargs).val
        IN  [type |-> op.type,
             terms |-> [t \in DOMAIN op.terms |-> DenseLabel(op.terms[t].factors, n)]]]

\* A fermionic circuit of n wires that loads the occupations init and then
\* applies the gates.
FermionCircuit(n, init, gates) ==
    [num_qubits |-> n, init |-> init, ops |-> ToOperators(n, gates)]
\* A spin circuit of n wires.
SpinCircuit(n) == [num_qubits |-> n, init |-> ZeroOccupations(n), ops |-> <<>>]

\* A measurement distribution: its length and the indices of its non-zero
\* probabilities.
Distribution(len, support) == [len |-> len, support |-> support]
\* The lengths tried: 0, 1, and the solver's dim with its two neighbours.
LengthsTried ==
    {0, 1} \cup (IF dim = None THEN {} ELSE {x \in (dim[1] - 1)..(dim[1] + 1) : x >= 0})
\* The distributions tried: of the solver's dim, all the weight on one index,
\* or shared by the first index and the last; of another length, all the
\* weight on index 0.
Distributions ==
    UNION {IF Some(len) = dim
           THEN {Distribution(len, {i}) : i \in 0..(len - 1)}
                \cup {Distribution(len, {x \in {0, len - 1} : x >= 0})}
           ELSE {Distribution(len, {x \in {0} : x < len})} : len \in LengthsTried}
\* np.random.choice(..., self.shots, p=...): draws that fall in the support.
Samples(distribution) ==
    IF shots = None THEN {<<>>} ELSE [1..shots[1] -> distribution.support]

\* --------------------------------------------------------- the operations
NotConstructed == kind = "none"
IdleSolver(k) == kind = k /\ call.phase = "idle"

\* FermionCircuitSolver.__init__ (lines 51-54).
ConstructFermion ==
    /\ NotConstructed /\ call.phase = "idle"
    /\ \E sh \in ShotsValues, ns \in 1..MaxSpecies, md \in MaxDimensions :
         /\ kind' = "fermion"
         /\ shots' = sh
         /\ num_species' = ns
         /\ max_dimension' = md
         /\ call' = Returned("FermionCircuitSolver.__init__", <<sh, ns>>, <<>>)
    /\ basis' = None
    /\ dim' = None
    /\ UNCHANGED spin

\* SpinCircuitSolver.__init__ (lines 49-56): no solver comes out of a spin
\* that is refused.
ConstructSpin ==
    /\ NotConstructed /\ call.phase = "idle"
    /\ \E n \in (-MaxSpinNumerator)..MaxSpinNumerator, d \in 1..MaxSpinDenominator,
          sh \in ShotsValues, md \in {DefaultMaxDimension} :
         IF SpinAccepted(Fraction(n, d))
         THEN /\ kind' = "spin"
              /\ spin' = Fraction(n, d)
              /\ shots' = sh
              /\ max_dimension' = md
              /\ call' = Returned("SpinCircuitSolver.__init__", <<n, d>>, <<>>)
         ELSE /\ call' = Raised("SpinCircuitSolver.__init__", <<n, d>>, "SpinNotHalfInteger")
              /\ UNCHANGED <<kind, spin, shots, max_dimension>>
    /\ UNCHANGED <<num_species, basis, dim>>

\* FermionCircuitSolver.preprocess_circuit.
FermionPreprocess ==
    /\ IdleSolver("fermion")
    /\ \E n \in 1..MaxWires :
         \E init \in [1..n -> {0, 1}], gates \in {<<>>} \cup {<<g>> : g \in Gates(n)} :
           \E circuit \in {FermionCircuit(n, init, gates)} :
             \E r \in {FermionPreprocessEffect(circuit)} :
               /\ basis' = r.basis
               /\ dim' = r.dim
               /\ call' = IF r.err # "" THEN Raised("preprocess_circuit", circuit, r.err)
                          ELSE Returned("preprocess_circuit", circuit, <<>>)
    /\ UNCHANGED <<kind, shots, num_species, spin, max_dimension>>

\* SpinCircuitSolver.preprocess_circuit (line 129).
SpinPreprocess ==
    /\ IdleSolver("spin")
    /\ \E n \in 1..MaxWires :
         /\ dim' = Some(SpinDimension(SpinCircuit(n)))
         /\ call' = Returned("preprocess_circuit", SpinCircuit(n), <<>>)
    /\ UNCHANGED <<kind, shots, num_species, spin, max_dimension, basis>>

\* solver.basis = b, for a basis b built from any state.
SetBasis ==
    /\ IdleSolver("fermion")
    /\ \E n \in 1..MaxWires, ns \in {num_species}, sc \in BOOLEAN :
         \E init \in [1..n -> {0, 1}] :
           /\ n % ns = 0
           /\ \E b \in {FromState(InitialState([num_qubits |-> n, init |-> init], ns), sc)} :
                \E r \in {BasisSetter(b)} :
                  /\ basis' = r.basis
                  /\ call' = IF r.err # "" THEN Raised("basis.setter", b, r.err)
                             ELSE Returned("basis.setter", b, <<>>)
    /\ UNCHANGED <<kind, shots, num_species, spin, max_dimension, dim>>

\* FermionCircuitSolver.get_initial_state.
FermionGetInitialState ==
    /\ IdleSolver("fermion")
    /\ \E n \in 1..MaxWires :
         \E init \in [1..n -> {0, 1}] :
           \E circuit \in {FermionCircuit(n, init, <<>>)} :
             \E r \in {FermionInitialState(circuit)} :
               call' = IF r.err # "" THEN Raised("get_initial_state", circuit, r.err)
                       ELSE Returned("get_initial_state", circuit, r.val)
    /\ UNCHANGED <<kind, shots, num_species, spin, max_dimension, basis, dim>>

\* SpinCircuitSolver.get_initial_state.
SpinGetInitialState ==
    /\ IdleSolver("spin")
    /\ \E n \in 1..MaxWires :
         \E r \in {SpinInitialState(SpinCircuit(n))} :
             call' = IF r.err # "" THEN Raised("get_initial_state", SpinCircuit(n), r.err)
                     ELSE Returned("get_initial_state", SpinCircuit(n), r.val)
    /\ UNCHANGED <<kind, shots, num_species, spin, max_dimension, basis, dim>>

\* FermionCircuitSolver.draw_shots.
FermionDrawShots ==
    /\ IdleSolver("fermion")
    /\ \E distribution \in Distributions :
         \E samples \in Samples(distribution) :
           \E r \in {FermionDraw(distribution, samples)},
              arg \in {[distribution |-> distribution, samples |-> samples]} :
               call' = IF r.err # "" THEN Raised("draw_shots", arg, r.err)
                       ELSE Returned("draw_shots", arg, r.val)
    /\ UNCHANGED <<kind, shots, num_species, spin, max_dimension, basis, dim>>

\* SpinCircuitSolver.draw_shots.
SpinDrawShots ==
    /\ IdleSolver("spin")
    /\ \E distribution \in Distributions :
         \E samples \in Samples(distribution) :
           \E r \in {SpinDraw(distribution, samples)},
              arg \in {[distribution |-> distribution, samples |-> samples]} :
               call' = IF r.err # "" THEN Raised("draw_shots", arg, r.err)
                       ELSE Returned("draw_shots", arg, r.val)
    /\ UNCHANGED <<kind, shots, num_species, spin, max_dimension, basis, dim>>

\* The caller takes the result, or the error, of the operation.
Return ==
    /\ call.phase = "returned"
    /\ call' = Idle
    /\ UNCHANGED <<kind, shots, num_species, spin, max_dimension, basis, dim>>

Init ==
    /\ kind = "none"
    /\ shots = None
    /\ num_species = 1
    /\ spin = <<0, 1>>
    /\ max_dimension = 1
    /\ basis = None
    /\ dim = None
    /\ call = Idle

\* The solvers driven through preprocess_circuit, get_initial_state and
\* draw_shots.
NextPre ==
    \/ ConstructFermion
    \/ ConstructSpin
    \/ FermionPreprocess
    \/ SpinPreprocess
    \/ FermionGetInitialState
    \/ SpinGetInitialState
    \/ FermionDrawShots
    \/ SpinDrawShots
    \/ Return

SpecPre == Init /\ [][NextPre]_vars

\* The same, with direct assignments of the basis.
Next ==
    \/ NextPre
    \/ SetBasis

Spec == Init /\ [][Next]_vars

\* ----------------------------------------- claims about _embed_operator
EmbedCall == call.op = "_embed_operator" /\ call.phase = "returned"
\* The operator is of the solver's type and acts on len(qargs) wires.
EmbedArityOk ==
    \/ /\ kind = "fermion" /\ call.arg.operator.type = "FermionicOp"
       /\ call.arg.operator.register_length = Len(call.arg.qargs)
    \/ /\ kind = "spin" /\ call.arg.operator.type = "SpinOp"
       /\ call.arg.operator.num_spins = Len(call.arg.qargs)
\* The number written in decimal by a list of digit characters.
RECURSIVE NatOf(_)
NatOf(chars) ==
    IF chars = <<>> THEN 0
    ELSE 10 * NatOf(SubSeq(chars, 1, Len(chars) - 1)) + IntOfChar(chars[Len(chars)])
\* The last character of the index written in a factor such as "Z_10^2".
IndexEnd(term) ==
    CHOOSE e \in 3..Len(term) :
        /\ \A x \in 3..e : IsDigit(term[x])
        /\ (e = Len(term) \/ ~IsDigit(term[e + 1]))
\* The factor with its index i replaced by qargs[i].
Relabelled(term, qargs) ==
    SubSeq(term, 1, 2)
    \o Str(At(qargs, NatOf(SubSeq(term, 3, IndexEnd(term)))))
    \o SubSeq(term, IndexEnd(term) + 1, Len(term))
SameTermsOnQargs(operator, qargs, result) ==
    IF operator.type = "FermionicOp"
    THEN /\ DOMAIN result.terms = DOMAIN operator.terms
         /\ \A t \in DOMAIN operator.terms :
              /\ result.terms[t].coeff = operator.terms[t].coeff
              /\ DOMAIN result.terms[t].factors = DOMAIN operator.terms[t].factors
              /\ \A f \in DOMAIN operator.terms[t].factors :
                   /\ result.terms[t].factors[f][1] = operator.terms[t].factors[f][1]
                   /\ result.terms[t].factors[f][2]
                        = At(qargs, operator.terms[t].factors[f][2])
    ELSE /\ DOMAIN result.data = DOMAIN operator.data
         /\ \A i \in DOMAIN operator.data :
              /\ result.data[i][2] = operator.data[i][2]
              /\ LET old == Split(operator.data[i][1], 1, <<>>)
                 IN  Split(result.data[i][1], 1, <<>>)
                       = [t \in DOMAIN old |-> Relabelled(old[t], qargs)]
StructurallyEqual(operator, result) ==
    IF operator.type = "FermionicOp"
    THEN result = operator
    ELSE result.num_spins = operator.num_spins /\ result.data = operator.data

\* C6, as claimed: for both solvers, _embed_operator on an operator whose
\* arity is len(qargs) returns an operator with the same terms and
\* coefficients, every factor on local index i now on qargs[i]; with
\* qargs = [0, ..., k-1] and num_wires = k the result equals the operator.
C6_AsClaimed ==
    (EmbedCall /\ EmbedArityOk)
        => /\ call.err = ""
           /\ SameTermsOnQargs(call.arg.operator, call.arg.qargs, call.val)
           /\ (call.arg.qargs = Shifted(call.arg.num_wires, 0)
                 => StructurallyEqual(call.arg.operator, call.val))

\* ------------------------------------ claims about _check_conservations
\* What the claims say of a circuit, stated without the loops of the code.
ConsCall == call.op = "_check_conservations" /\ call.phase = "returned"
TermsOf(c) == {<<i, j>> \in (1..Len(c.ops)) \X (1..MaxTerms + 1) : j <= Len(c.ops[i].terms)}
TermAt(c, p) == c.ops[p[1]].terms[p[2]]
Before(p, q) == p[1] < q[1] \/ (p[1] = q[1] /\ p[2] < q[2])
AllFermionic(c) == \A i \in 1..Len(c.ops) : c.ops[i].type = "FermionicOp"
FullLength(c) == \A p \in TermsOf(c) : Len(TermAt(c, p)) = c.num_qubits
Creators(s, wires) == Cardinality({k \in wires : k \in DOMAIN s /\ s[k] = "+"})
Annihilators(s, wires) == Cardinality({k \in wires : k \in DOMAIN s /\ s[k] = "-"})
TermBalanced(s) == Creators(s, DOMAIN s) = Annihilators(s, DOMAIN s)
BlockWires(n, ns, b) == {k \in 1..n : (k - 1) \div (n \div ns) = b}
TermSpeciesBalanced(s, n, ns) ==
    \A b \in 0..(ns - 1) : Creators(s, BlockWires(n, ns, b)) = Annihilators(s, BlockWires(n, ns, b))
AllBalanced(c) == \A p \in TermsOf(c) : TermBalanced(TermAt(c, p))
AllSpeciesBalanced(c, ns) ==
    \A p \in TermsOf(c) : TermSpeciesBalanced(TermAt(c, p), c.num_qubits, ns)
Divisible(c, ns) == c.num_qubits % ns = 0

\* C3, as claimed: for a circuit of FermionicOps whose term-strings all have
\* the length of the wire count, _check_conservations returns
\* particle_conservation = TRUE when every term has as many "+" as "-", and
\* FALSE when some term, at any position, has not.
C3_AsClaimed ==
    (ConsCall /\ AllFermionic(call.arg) /\ FullLength(call.arg))
        => (call.err = "" /\ call.val[1] = AllBalanced(call.arg))

\* C3, amended: the same, for a solver with one species or a wire count that
\* is a multiple of num_species.
C3_ParticleConservation ==
    (ConsCall /\ AllFermionic(call.arg) /\ FullLength(call.arg)
        /\ (num_species = 1 \/ Divisible(call.arg, num_species)))
        => (call.err = "" /\ call.val[1] = AllBalanced(call.arg))

\* C3, witness: a balanced term followed by an unbalanced one, and the flag
\* returned FALSE.
C3_Witness ==
    /\ ConsCall /\ AllFermionic(call.arg) /\ FullLength(call.arg)
    /\ Divisible(call.arg, num_species)
    /\ \E p, q \in TermsOf(call.arg) :
          /\ Before(p, q)
          /\ TermBalanced(TermAt(call.arg, p))
          /\ Creators(TermAt(call.arg, p), 1..MaxWires + 1) > 0
          /\ ~TermBalanced(TermAt(call.arg, q))
    /\ call.err = "" /\ call.val[1] = FALSE

\* C4: for num_species > 1, a wire count that is a multiple of num_species and
\* full-length term-strings, _check_conservations returns spin_conservation =
\* TRUE exactly when every term has, in each species' block of wires, as many
\* "+" as "-"; a mismatch in one term keeps the flag FALSE and the later terms
\* are still checked (a later term with unequal counts overall still turns
\* particle_conservation FALSE).
C4_SpinConservation ==
    (ConsCall /\ AllFermionic(call.arg) /\ FullLength(call.arg)
        /\ num_species > 1 /\ Divisible(call.arg, num_species))
        => /\ call.err = ""
           /\ call.val[2] = AllSpeciesBalanced(call.arg, num_species)
           /\ call.val[1] = AllBalanced(call.arg)

\* C4, witness: a term balanced overall but not per species, in blocks of more
\* than one wire, followed by a term that is unbalanced overall.
C4_Witness ==
    /\ ConsCall /\ AllFermionic(call.arg) /\ FullLength(call.arg)
    /\ num_species > 1 /\ Divisible(call.arg, num_species)
    /\ call.arg.num_qubits \div num_species > 1
    /\ \E p, q \in TermsOf(call.arg) :
          /\ Before(p, q)
          /\ TermBalanced(TermAt(call.arg, p))
          /\ ~TermSpeciesBalanced(TermAt(call.arg, p), call.arg.num_qubits, num_species)
          /\ ~TermBalanced(TermAt(call.arg, q))
    /\ call.err = "" /\ call.val = <<FALSE, FALSE>>

\* C5, as claimed: with num_species > 1 and a wire count that is no multiple
\* of num_species, _check_conservations ends in the shape-mismatch error
\* whatever the operators are; it never returns a pair of flags. (Stated for
\* circuits with at least one term: a circuit without any returns
\* (TRUE, TRUE) as well.)
C5_AsClaimed ==
    (ConsCall /\ AllFermionic(call.arg) /\ TermsOf(call.arg) # {}
        /\ num_species > 1 /\ ~Divisible(call.arg, num_species))
        => call.err \in {"NotMultipleOfSpecies", "LengthMismatch"}

\* ------------------------------------------------ claims about the solvers
ConstructSpinCall == call.op = "SpinCircuitSolver.__init__" /\ call.phase = "returned"
SetBasisCall == call.op = "basis.setter" /\ call.phase = "returned"
PreprocessCall == call.op = "preprocess_circuit" /\ call.phase = "returned"
InitialStateCall == call.op = "get_initial_state" /\ call.phase = "returned"
DrawCall == call.op = "draw_shots" /\ call.phase = "returned"
\* The spin n / d is a positive integer or a positive half-integer.
PositiveHalfInteger(n, d) == n > 0 /\ (2 * n) % d = 0

\* C9, as claimed: constructing a SpinCircuitSolver fails with the domain
\* error whenever the spin is not a positive integer or positive
\* half-integer (spin 0, negative spins, denominators other than 1 and 2),
\* and no solver is created in that case.
C9_AsClaimed ==
    (ConstructSpinCall /\ ~PositiveHalfInteger(call.arg[1], call.arg[2]))
        => call.err = "SpinNotHalfInteger" /\ kind = "none"

\* C1: in the fermionic solver, after any sequence of preprocess_circuit
\* calls and direct basis assignments, the stored basis (when one is set) has
\* dimension at most max_dimension, and the assignment of a basis of a
\* greater dimension fails with the dimension-exceeded error.
C1_BasisWithinMaxDimension ==
    /\ (kind = "fermion" /\ basis # None) => Len(basis[1]) <= max_dimension
    /\ (SetBasisCall /\ Len(call.arg) > max_dimension) => call.err = "DimensionExceeded"
\* A basis of too large a dimension refused while a basis of the largest
\* dimension allowed is stored.
C1_Witness ==
    /\ SetBasisCall
    /\ Len(call.arg) > max_dimension
    /\ call.err = "DimensionExceeded"
    /\ basis # None
    /\ Len(basis[1]) = max_dimension

\* C2, as claimed: in both solvers, draw_shots on a solver whose shots is
\* None fails with the shots-unset error for every distribution, whatever
\* its length relative to dim (here: once preprocess_circuit has set dim).
C2_AsClaimed ==
    (DrawCall /\ shots = None /\ dim # None) => call.err = "ShotsUnset"
\* C2, amended: in both solvers, draw_shots on a solver whose shots is None
\* always fails: with the shots-unset error when the distribution has length
\* dim, with the dimension-mismatch error when it has another length.
C2_ShotsUnsetAfterLength ==
    (DrawCall /\ shots = None)
        => call.err = (IF Some(call.arg.distribution.len) = dim
                       THEN "ShotsUnset" ELSE "DimensionMismatch")
\* draw_shots of a solver without shots, after preprocess_circuit, on a
\* distribution of another length than dim.
C2_Witness ==
    /\ DrawCall
    /\ shots = None
    /\ dim # None
    /\ Some(call.arg.distribution.len) # dim
    /\ call.err = "DimensionMismatch"

\* The number of wires of a spin solver whose dim is a power of its base.
WiresOfDim == CHOOSE n \in 0..(MaxWires + 1) : Pow(Base, n) = dim[1]
\* The digit of weight base ** k in the expansion of m.
DigitOf(m, base, k) == (m \div Pow(base, k)) % base
\* draw_shots of a spin solver of spin S >= 1/2 has returned its outcomes.
SpinOutcomes ==
    /\ DrawCall
    /\ kind = "spin"
    /\ Base >= 2
    /\ call.err = ""
\* The outcome of every shot is the string of these digits of the index drawn.
OutcomesAre(digits(_, _)) ==
    /\ Len(call.val) = Len(call.arg.samples)
    /\ \A shot \in DOMAIN call.val :
         call.val[shot]
           = Join([w \in 1..WiresOfDim |-> Str(digits(call.arg.samples[shot], w))])
LeastSignificantLast(m, w) == DigitOf(m, Base, WiresOfDim - w)
LeastSignificantFirst(m, w) == DigitOf(m, Base, w - 1)

UnitVector(v, rows) ==
    /\ v.shape = <<rows, 1>>
    /\ \E row \in 0..(rows - 1) : v.entries = {<<row, 0, 1>>}
InitialStateReturned == InitialStateCall /\ call.err = ""

\* C8, as claimed: after one or more preprocess_circuit calls,
\* get_initial_state(circuit) of either solver returns a column vector whose
\* length is the solver's stored dim, with a single unit amplitude (here: for
\* spin solvers of spin S >= 1/2).
C8_AsClaimed ==
    (InitialStateReturned /\ dim # None /\ (kind = "spin" => Base >= 2))
        => UnitVector(call.val, dim[1])
\* C8, amended: after one or more preprocess_circuit calls, the vector that
\* get_initial_state(circuit) returns has a single unit amplitude and zeros
\* elsewhere; its length is the stored dim in the fermionic solver, and
\* (2S+1)^circuit.num_qubits in the spin solver, which is the stored dim when
\* the circuit has as many wires as the circuit last preprocessed.
C8_InitialStateLength ==
    (InitialStateReturned /\ dim # None)
        => UnitVector(call.val, IF kind = "fermion" THEN dim[1]
                                ELSE Pow(Base, call.arg.num_qubits))
\* A spin solver preprocessed for one circuit and asked for the initial
\* state of a circuit with another number of wires.
C8_Witness ==
    /\ InitialStateReturned
    /\ kind = "spin"
    /\ Base >= 2
    /\ dim # None
    /\ Pow(Base, call.arg.num_qubits) # dim[1]

\* The stored dim is the dimension of the stored basis.
DimOfBasis ==
    kind = "fermion"
        => \/ basis = None /\ dim = None
           \/ basis # None /\ dim = Some(Len(basis[1]))
\* A preprocess_circuit call that raises leaves the basis and dim alone.
RejectedKeeps ==
    (call'.op = "preprocess_circuit" /\ call'.err # "" /\ call.phase = "idle")
        => basis' = basis /\ dim' = dim

\* C10: in the fermionic solver, after any sequence of preprocess_circuit
\* calls, rejected ones included, the stored dim is the dimension of the
\* stored basis, and a rejected call leaves the basis and dim as they were.
C10_DimMatchesBasis == [](DimOfBasis) /\ [][RejectedKeeps]_vars
\* A call rejected for its dimension while a basis and its dim are stored.
C10_Witness ==
    /\ PreprocessCall
    /\ kind = "fermion"
    /\ call.err = "DimensionExceeded"
    /\ basis # None
    /\ dim = Some(Len(basis[1]))
====
